---- MODULE Spec2Model ----
(***************************************************************************)
(* A model of the YOLO detection application: one request of the Streamlit *)
(* script (app.py, components/), the image and video detectors            *)
(* (services/detection_service.py), the class registry (config.py) and    *)
(* the cached model loader (services/model_service.py).                   *)
(***************************************************************************)
EXTENDS Integers, Sequences, FiniteSets, TLC

\* ------------------------------------------------------------------ bounds
\* Most frames a video holds (the K of one detect call).
MaxFrames == 3
\* Largest advisory frame count the stream reports (CAP_PROP_FRAME_COUNT).
MaxTotal == 4
\* Most boxes one inference call returns in the statistics specification.
MaxBoxes == 3
\* Most load_model calls in the loader specification.
MaxCalls == 4

\* ------------------------------------------------------------- config.py
\* Config.DETECTION_CLASSES: 0 = human, 1 = car.
DETECTION_CLASSES ==
    [i \in {0, 1} |-> IF i = 0 THEN [id |-> 0, name |-> "Human"]
                               ELSE [id |-> 1, name |-> "Car"]]

\* Class identifiers the inference engine may put on a box: the registered
\* ones and one the registry does not know.
ClassIds == {0, 1, 2}

\* The display names of the registry.
ConfiguredNames == {DETECTION_CLASSES[i].name : i \in DOMAIN DETECTION_CLASSES}

\* Config.get_class_name: the registered name, else f"Class {class_id}".
GetClassName(class_id) ==
    IF class_id \in DOMAIN DETECTION_CLASSES
    THEN DETECTION_CLASSES[class_id].name
    ELSE "Class " \o ToString(class_id)

\* ------------------------------------------------------ python dictionaries
\* A Dict[str, int] is a function from its keys; insertion order is dropped
\* (it is used for display only).
EmptyDict == [k \in {} |-> 0]

\* dict.get(key, default)
DictGet(d, key, default) == IF key \in DOMAIN d THEN d[key] ELSE default

\* d[key] = value
DictPut(d, key, value) ==
    [k \in DOMAIN d \cup {key} |-> IF k = key THEN value ELSE d[k]]

\* ------------------------------------------- BaseDetector (single frame)
\* The elements of a python list.
ListItems(list) == {list[i] : i \in DOMAIN list}

\* The classes argument no filter is passed with (python None).
NoFilter == [filter |-> FALSE, ids |-> <<>>]

\* A mutation of ClassesArg: the list is passed as it is, empty or not.
ClassesArgAsIs(classes) == [filter |-> TRUE, ids |-> classes]

\* _run_inference, line 43: classes=self._classes if self._classes else None
ClassesArg(classes) ==
    IF Len(classes) > 0 THEN [filter |-> TRUE, ids |-> classes] ELSE NoFilter

\* model.predict(source=frame, classes=arg): the boxes of the frame, each box
\* its class identifier, restricted to the filter when one is passed.
Predict(frame, arg) ==
    IF arg.filter
    THEN SelectSeq(frame.raw, LAMBDA c : c \in ListItems(arg.ids))
    ELSE frame.raw

\* results[0].plot(): the frame with the boxes of the result burned in.
Plot(frame, boxes) == [frame |-> frame.id, boxes |-> boxes]

\* A mutation of the counting loop: the count is set to 1, never added to.
RECURSIVE CountBoxesNoIncrement(_, _)
CountBoxesNoIncrement(stats, boxes) ==
    IF boxes = <<>> THEN stats
    ELSE CountBoxesNoIncrement(DictPut(stats, GetClassName(Head(boxes)), 1),
                               Tail(boxes))

\* _extract_statistics, lines 58-61: the loop over the boxes.
RECURSIVE CountBoxes(_, _)
CountBoxes(stats, boxes) ==
    IF boxes = <<>> THEN stats
    ELSE LET class_id == Head(boxes)
             class_name == GetClassName(class_id)
         IN  CountBoxes(DictPut(stats, class_name,
                                DictGet(stats, class_name, 0) + 1),
                        Tail(boxes))

\* _extract_statistics
ExtractStatistics(detections) ==
    IF Len(detections) = 0 THEN EmptyDict ELSE CountBoxes(EmptyDict, detections)

\* _run_inference: classes_arg and boxes record what the call passed to the
\* engine and got from it; python returns (annotated, statistics).
RunInference(frame, classes) ==
    LET arg == ClassesArg(classes)
        boxes == Predict(frame, arg)
    IN  [classes_arg |-> arg,
         boxes       |-> boxes,
         annotated   |-> Plot(frame, boxes),
         statistics  |-> ExtractStatistics(boxes)]

\* --------------------------------------------------------- VideoDetector
\* A mutation of _merge_statistics: the frame's count replaces the total.
MergeStatisticsOverwrite(total, frame_stats) ==
    [k \in DOMAIN total \cup DOMAIN frame_stats |->
        IF k \in DOMAIN frame_stats THEN frame_stats[k] ELSE total[k]]

\* _merge_statistics: total[name] = total.get(name, 0) + count for each item.
MergeStatistics(total, frame_stats) ==
    [k \in DOMAIN total \cup DOMAIN frame_stats |->
        IF k \in DOMAIN frame_stats
        THEN DictGet(total, k, 0) + frame_stats[k]
        ELSE total[k]]

\* _update_progress, line 168: current / total as the fraction num/den
\* (total is not 0 here: the division raises ZeroDivisionError then).
ProgressValue(current, total) == [num |-> current, den |-> total]

\* progress_bar.progress(value) takes a float of [0.0, 1.0] only.
ProgressAccepted(p) == p.num >= 0 /\ p.num <= p.den

\* ------------------------------------------------- ModelService.load_model
\* A mutation of load_model: the cache is never consulted.
LoadModelUncached(c, n, model_path) ==
    [cache |-> DictPut(c, model_path, n + 1), loads |-> n + 1, model |-> n + 1]

\* load_model under @st.cache_resource: c is the cache (path -> handle), n the
\* number of models deserialized so far; YOLO(model_path) builds object n + 1.
LoadModel(c, n, model_path) ==
    IF model_path \in DOMAIN c
    THEN [cache |-> c, loads |-> n, model |-> c[model_path]]
    ELSE [cache |-> DictPut(c, model_path, n + 1), loads |-> n + 1,
          model |-> n + 1]

\* ------------------------------------------------------------------ inputs
\* settings.model_path when no model is selected (python None).
NoPath == "None"
\* Config.DEFAULT_MODEL
DefaultModel == "models/best.pt"
\* The temporary files one request creates (tempfile.NamedTemporaryFile).
ModelTmp == "tmp_model.pt"
InputTmp == "tmp_input.mp4"
TempAvi == "tmp_output.avi"
FinalMp4 == "tmp_final.mp4"

\* What the sidebar's model section can come to.
ModelSources == {"default", "default_missing", "upload", "upload_none"}

\* The order _render_class_selection walks the registry in.
RegistryOrder == <<0, 1>>

\* _render_class_selection: the identifiers of the ticked boxes, in order.
SelectedClasses(ticked) == SelectSeq(RegistryOrder, LAMBDA c : c \in ticked)
SelectedClassLists == {SelectedClasses(t) : t \in SUBSET DOMAIN DETECTION_CLASSES}

\* The boxes in the scene of a frame of the request specification: none, one
\* registered class, a class twice with another between, an unregistered one.
SceneBoxLists == {<<>>, <<1>>, <<0, 1, 0>>, <<2>>}

\* Every list of at most MaxBoxes boxes (the statistics specification).
BoxLists == UNION {[1..n -> ClassIds] : n \in 0..MaxBoxes}

\* How the ffmpeg subprocess can end.
TranscodeOutcomes == {"ok", "exit_nonzero", "missing", "not_executable"}

\* The paths load_model is called with in the loader specification.
ModelPaths == {DefaultModel, ModelTmp, "tmp_model2.pt"}

\* ------------------------------------------------------------------- state
VARIABLES
    pc,            \* where the request is
    settings,      \* SidebarSettings
    files,         \* the temporary files on disk: name -> content
    temp_files,    \* VideoProcessorComponent._temp_files
    ui,            \* what the page shows
    failure,       \* the exception raised, "none" when none
    video,         \* the opened stream: readable frames K, advisory total_frames
    frame_count,   \* _process_frames.frame_count
    frames_read,   \* the frames cap.read() returned, in order
    frame_stats,   \* the statistics table of each frame, in order
    written,       \* the frames given to out.write(), in order
    total_stats,   \* _process_frames.total_stats
    progress,      \* the values given to progress_bar.progress(), in order
    cap_open,      \* the reader is open
    out_open,      \* the sink is open
    transcode,     \* how ffmpeg ended, "none" before it ran
    result,        \* what detect returned
    cache,         \* st.cache_resource of load_model: path -> handle
    loads,         \* models deserialized so far
    calls,         \* the load_model calls so far (loader specification)
    probe,         \* one frame and its detection (statistics specification)
    unlink_failed  \* the files whose os.unlink raised

vars == <<pc, settings, files, temp_files, ui, failure, video, frame_count,
          frames_read, frame_stats, written, total_stats, progress, cap_open,
          out_open, transcode, result, cache, loads, calls, probe,
          unlink_failed>>

videoVars == <<video, frame_count, frames_read, frame_stats, written,
               total_stats, progress, cap_open, out_open, transcode>>
loaderVars == <<cache, loads, calls>>

NoResult == [kind |-> "none"]
NoProbe == [done |-> FALSE]

\* The state of a request before it starts, with pc left open.
Fresh ==
    /\ settings = [model_path |-> NoPath, selected_classes |-> <<>>]
    /\ files = EmptyDict
    /\ temp_files = <<>>
    /\ ui = {}
    /\ failure = "none"
    /\ video = [K |-> 0, total_frames |-> 0]
    /\ frame_count = 0
    /\ frames_read = <<>>
    /\ frame_stats = <<>>
    /\ written = <<>>
    /\ total_stats = EmptyDict
    /\ progress = <<>>
    /\ cap_open = FALSE
    /\ out_open = FALSE
    /\ transcode = "none"
    /\ result = NoResult
    /\ cache = EmptyDict
    /\ loads = 0
    /\ calls = <<>>
    /\ unlink_failed = {}

Init ==
    /\ pc = "sidebar"
    /\ Fresh
    /\ probe = NoProbe

\* os.unlink of the existing ones among `names`.
Unlink(fs, names) == [f \in DOMAIN fs \ names |-> fs[f]]

\* An exception leaves the frame it was raised in.
Raise(what) ==
    /\ pc' = "raised"
    /\ failure' = what

\* ------------------------------------------------ the request (app.py)
\* Application.run, lines 35-44, with SidebarComponent.render: the model
\* section (an uploaded model is saved to a temporary file), the class boxes,
\* and the early return when no model is selected.
SidebarRender ==
    /\ pc = "sidebar"
    /\ \E source \in ModelSources, classes \in SelectedClassLists :
         LET model_path == CASE source = "default" -> DefaultModel
                             [] source = "upload" -> ModelTmp
                             [] OTHER -> NoPath
             shown == CASE source = "default_missing" -> {"error_model_not_found"}
                        [] source = "upload_none" -> {"warning_upload_model"}
                        [] OTHER -> {}
         IN  /\ settings' = [model_path |-> model_path,
                             selected_classes |-> classes]
             /\ files' = IF source = "upload"
                         THEN DictPut(files, ModelTmp, [fmt |-> "pt", frames |-> <<>>])
                         ELSE files
             /\ ui' = ui \cup shown \cup
                      (IF model_path = NoPath THEN {"warning_select_model"} ELSE {})
             /\ pc' = IF model_path = NoPath THEN "done" ELSE "load_model"
    /\ UNCHANGED <<temp_files, failure, videoVars, result, loaderVars, probe,
                   unlink_failed>>

\* _process_with_model, lines 53-54: load_model, which may raise.
LoadModelStep ==
    /\ pc = "load_model"
    /\ \E readable \in BOOLEAN :
         IF readable \/ settings.model_path \in DOMAIN cache
         THEN LET r == LoadModel(cache, loads, settings.model_path)
              IN  /\ cache' = r.cache
                  /\ loads' = r.loads
                  /\ ui' = ui \cup {"model_loaded"}
                  /\ pc' = "content"
                  /\ UNCHANGED failure
         ELSE /\ Raise("load")
              /\ UNCHANGED <<cache, loads, ui>>
    /\ UNCHANGED <<settings, files, temp_files, videoVars, result, calls, probe,
                   unlink_failed>>

\* _render_content: the file type radio, then the processor's render up to
\* its detection; VideoProcessorComponent saves the upload to a temporary file.
RenderContent ==
    /\ pc = "content"
    /\ \E upload_type \in {"image", "video"}, uploaded \in BOOLEAN :
         IF ~uploaded
         THEN /\ pc' = "done"
              /\ ui' = ui \cup {"footer"}
              /\ UNCHANGED <<files, temp_files>>
         ELSE IF upload_type = "image"
         THEN /\ pc' = "image_detect"
              /\ ui' = ui \cup {"original_image"}
              /\ UNCHANGED <<files, temp_files>>
         ELSE /\ pc' = "video_ui"
              /\ files' = DictPut(files, InputTmp, [fmt |-> "upload", frames |-> <<>>])
              /\ temp_files' = Append(temp_files, InputTmp)
              /\ ui' = ui \cup {"original_video"}
    /\ UNCHANGED <<settings, failure, videoVars, result, loaderVars, probe,
                   unlink_failed>>

\* ImageProcessorComponent._process_and_display with ImageDetector.detect,
\* then the footer.
ImageDetect ==
    /\ pc = "image_detect"
    /\ \E scene \in SceneBoxLists, inference_ok \in BOOLEAN :
         IF ~inference_ok
         THEN /\ Raise("inference")
              /\ UNCHANGED <<result, ui>>
         ELSE LET r == RunInference([id |-> 1, raw |-> scene],
                                    settings.selected_classes)
              IN  /\ result' = [kind |-> "image",
                                annotated_frame |-> r.annotated,
                                statistics |-> r.statistics]
                  /\ ui' = ui \cup {"result_image", "footer"} \cup
                           (IF r.statistics = EmptyDict
                            THEN {"info_no_detections"} ELSE {"statistics"})
                  /\ pc' = "done"
                  /\ UNCHANGED failure
    /\ UNCHANGED <<settings, files, temp_files, videoVars, loaderVars, probe,
                   unlink_failed>>

\* _render_detection_ui, lines 47-51: without the button nothing runs; with
\* it VideoDetector.detect opens the reader (lines 75-76), creates the
\* intermediate file and the sink (lines 78-86) and enters _process_frames.
StartDetection ==
    /\ pc = "video_ui"
    /\ \E clicked \in BOOLEAN :
         IF ~clicked
         THEN /\ ui' = ui \cup {"info_click_button"}
              /\ pc' = "cleanup"
              /\ UNCHANGED <<files, video, cap_open, out_open>>
         ELSE \E K \in 0..MaxFrames, total \in 0..MaxTotal :
              /\ video' = [K |-> K, total_frames |-> total]
              /\ cap_open' = TRUE
              /\ out_open' = TRUE
              /\ files' = DictPut(files, TempAvi, [fmt |-> "xvid", frames |-> <<>>])
              /\ pc' = "drain"
              /\ UNCHANGED ui
    /\ UNCHANGED <<settings, temp_files, failure, frame_count, frames_read,
                   frame_stats, written, total_stats, progress, transcode,
                   result, loaderVars, probe, unlink_failed>>

\* _process_frames, lines 139-150: one turn of the loop on a frame that was
\* read: inference (which may raise), write, merge, count, _update_progress
\* (which raises on a total of 0 and on a value the progress bar refuses).
ProcessFrame ==
    /\ pc = "drain"
    /\ cap_open
    /\ frame_count < video.K
    /\ \E scene \in SceneBoxLists, inference_ok \in BOOLEAN :
         LET frame == [id |-> frame_count + 1, raw |-> scene]
             r == RunInference(frame, settings.selected_classes)
             current == frame_count + 1
             total == video.total_frames
         IN  /\ frames_read' = Append(frames_read, frame)
             /\ IF ~inference_ok
                THEN /\ Raise("inference")
                     /\ UNCHANGED <<files, frame_count, frame_stats, written,
                                    total_stats, progress>>
                ELSE /\ written' = Append(written, r.annotated)
                     /\ files' = [files EXCEPT ![TempAvi].frames =
                                     Append(@, r.annotated)]
                     /\ frame_stats' = Append(frame_stats, r.statistics)
                     /\ total_stats' = MergeStatistics(total_stats, r.statistics)
                     /\ frame_count' = current
                     /\ IF total = 0
                        THEN /\ Raise("progress")
                             /\ UNCHANGED progress
                        ELSE /\ progress' = Append(progress,
                                                   ProgressValue(current, total))
                             /\ IF ProgressAccepted(ProgressValue(current, total))
                                THEN UNCHANGED <<pc, failure>>
                                ELSE Raise("progress")
    /\ UNCHANGED <<settings, temp_files, ui, video, cap_open, out_open,
                   transcode, result, loaderVars, probe, unlink_failed>>

\* _process_frames, lines 140-142 and 152-155, and detect, lines 90-91: the
\* read fails, the loop ends, the reader and the sink are released.
EndOfStream ==
    /\ pc = "drain"
    /\ cap_open
    /\ frame_count = video.K
    /\ cap_open' = FALSE
    /\ out_open' = FALSE
    /\ pc' = "convert"
    /\ UNCHANGED <<settings, files, temp_files, ui, failure, video, frame_count,
                   frames_read, frame_stats, written, total_stats, progress,
                   transcode, result, loaderVars, probe, unlink_failed>>

\* _convert_to_h264: the output file is created, ffmpeg runs; a non-zero exit
\* (CalledProcessError) and a missing tool (FileNotFoundError) are caught and
\* the intermediate file is copied; a tool that is not executable raises
\* PermissionError, which the except clause does not name.
ConvertToH264 ==
    /\ pc = "convert"
    /\ \E outcome \in TranscodeOutcomes :
         /\ transcode' = outcome
         /\ CASE outcome = "ok" ->
                   /\ files' = DictPut(files, FinalMp4,
                                       [fmt |-> "h264", frames |-> files[TempAvi].frames])
                   /\ pc' = "detect_cleanup"
                   /\ UNCHANGED failure
              [] outcome \in {"exit_nonzero", "missing"} ->
                   /\ files' = DictPut(files, FinalMp4, files[TempAvi])
                   /\ pc' = "detect_cleanup"
                   /\ UNCHANGED failure
              [] OTHER ->
                   /\ files' = DictPut(files, FinalMp4, [fmt |-> "empty", frames |-> <<>>])
                   /\ Raise("transcode")
    /\ UNCHANGED <<settings, temp_files, ui, video, frame_count, frames_read,
                   frame_stats, written, total_stats, progress, cap_open,
                   out_open, result, loaderVars, probe, unlink_failed>>

\* detect, lines 95-98: the intermediate file is unlinked (which may raise)
\* and the result returned.
DetectReturn ==
    /\ pc = "detect_cleanup"
    /\ \E unlink_ok \in BOOLEAN :
         IF unlink_ok
         THEN /\ files' = Unlink(files, {TempAvi})
              /\ result' = [kind |-> "video", output_path |-> FinalMp4,
                            statistics |-> total_stats]
              /\ pc' = "display"
              /\ UNCHANGED <<failure, unlink_failed>>
         ELSE /\ Raise("unlink")
              /\ unlink_failed' = unlink_failed \cup {TempAvi}
              /\ UNCHANGED <<files, result>>
    /\ UNCHANGED <<settings, temp_files, ui, videoVars, loaderVars, probe>>

\* _render_detection_ui, lines 52-55: the output joins _temp_files, the video
\* and the statistics are shown.
DisplayResult ==
    /\ pc = "display"
    /\ temp_files' = Append(temp_files, result.output_path)
    /\ ui' = ui \cup {"result_video", "download_button"} \cup
             (IF result.statistics = EmptyDict THEN {} ELSE {"statistics"})
    /\ pc' = "cleanup"
    /\ UNCHANGED <<settings, files, failure, videoVars, result, loaderVars,
                   probe, unlink_failed>>

\* _cleanup_temp_files, then the footer: each listed file is unlinked, a
\* failing unlink is swallowed and leaves its file.
CleanupTempFiles ==
    /\ pc = "cleanup"
    /\ \E kept \in SUBSET ListItems(temp_files) :
         /\ files' = Unlink(files, ListItems(temp_files) \ kept)
         /\ unlink_failed' = unlink_failed \cup kept
    /\ temp_files' = <<>>
    /\ ui' = ui \cup {"footer"}
    /\ pc' = "done"
    /\ UNCHANGED <<settings, failure, videoVars, result, loaderVars, probe>>

\* _process_with_model, lines 59-60: except Exception around the load and the
\* whole of _render_content.
HandleException ==
    /\ pc = "raised"
    /\ ui' = ui \cup {"error_loading_model"}
    /\ pc' = "done"
    /\ UNCHANGED <<settings, files, temp_files, failure, videoVars, result,
                   loaderVars, probe, unlink_failed>>

Next ==
    \/ SidebarRender
    \/ LoadModelStep
    \/ RenderContent
    \/ ImageDetect
    \/ StartDetection
    \/ ProcessFrame
    \/ EndOfStream
    \/ ConvertToH264
    \/ DetectReturn
    \/ DisplayResult
    \/ CleanupTempFiles
    \/ HandleException

Spec == Init /\ [][Next]_vars

\* ----------------------------------------- the loader specification
\* Calls of ModelService.load_model, one after the other, in one process: a
\* call whose file cannot be deserialized raises and caches nothing.
InitLoader ==
    /\ pc = "loader"
    /\ Fresh
    /\ probe = NoProbe

LoadModelCall ==
    /\ pc = "loader"
    /\ Len(calls) < MaxCalls
    /\ \E model_path \in ModelPaths, readable \in BOOLEAN :
         IF readable \/ model_path \in DOMAIN cache
         THEN LET r == LoadModel(cache, loads, model_path)
              IN  /\ cache' = r.cache
                  /\ loads' = r.loads
                  /\ calls' = Append(calls, [path |-> model_path,
                                             raised |-> FALSE,
                                             model |-> r.model])
         ELSE /\ calls' = Append(calls, [path |-> model_path,
                                         raised |-> TRUE, model |-> 0])
              /\ UNCHANGED <<cache, loads>>
    /\ UNCHANGED <<pc, settings, files, temp_files, ui, failure, videoVars,
                   result, probe, unlink_failed>>

NextLoader == LoadModelCall

SpecLoader == InitLoader /\ [][NextLoader]_vars

\* ------------------------------------- the statistics specification
\* ImageDetector.detect on one frame, for every list of boxes the engine may
\* find in it and every class selection of the sidebar.
InitStats ==
    /\ pc = "stats"
    /\ Fresh
    /\ \E raw \in BoxLists, classes \in SelectedClassLists :
         probe = [done |-> FALSE, frame |-> [id |-> 1, raw |-> raw],
                  classes |-> classes]

DetectFrame ==
    /\ pc = "stats"
    /\ ~probe.done
    /\ probe' = [done |-> TRUE, frame |-> probe.frame,
                 classes |-> probe.classes,
                 out |-> RunInference(probe.frame, probe.classes)]
    /\ UNCHANGED <<pc, settings, files, temp_files, ui, failure, videoVars,
                   result, loaderVars, unlink_failed>>

NextStats == DetectFrame

SpecStats == InitStats /\ [][NextStats]_vars

\* ------------------------------------------------------------------ claims
\* The count of `name` in a statistics table, 0 when it is absent.
CountIn(table, name) == IF name \in DOMAIN table THEN table[name] ELSE 0

\* The sum of the count of `name` over the first n tables.
RECURSIVE SumOfCounts(_, _, _)
SumOfCounts(tables, name, n) ==
    IF n = 0 THEN 0
    ELSE SumOfCounts(tables, name, n - 1) + CountIn(tables[n], name)

\* Every name some table holds.
NamesIn(tables) == UNION {DOMAIN tables[i] : i \in DOMAIN tables}

\* `stats` holds, for exactly the names of `tables`, the sum of their counts.
IsSumOf(stats, tables) ==
    /\ DOMAIN stats = NamesIn(tables)
    /\ \A name \in NamesIn(tables) \cup ConfiguredNames :
         CountIn(stats, name) = SumOfCounts(tables, name, Len(tables))

\* C1: the cumulative statistics of a video map every class name to the sum
\* of its counts over the per-frame tables produced so far and hold no other
\* name, all through the loop and in the result detect returns.
C1_CumulativeStatistics ==
    /\ IsSumOf(total_stats, frame_stats)
    /\ result.kind = "video" => IsSumOf(result.statistics, frame_stats)

\* C1's case: detect returned on two frames, with a name counted in both and
\* a name counted in one of them only.
C1_Witness ==
    /\ result.kind = "video"
    /\ Len(frame_stats) = 2
    /\ \E a \in DOMAIN frame_stats[1] \cap DOMAIN frame_stats[2] :
         result.statistics[a] = frame_stats[1][a] + frame_stats[2][a]
    /\ \E b \in DOMAIN frame_stats[1] \ DOMAIN frame_stats[2] :
         result.statistics[b] = 2

\* C2 as claimed, on the advisory totals that are not 0 (C5 is about 0): the
\* reported progress values never exceed 1.0, never decrease, and the value
\* after the K-th frame is exactly 1.0, whether the total is K, less or more.
C2_ProgressClaim ==
    video.total_frames >= 1 =>
        /\ \A i \in DOMAIN progress : progress[i].num <= progress[i].den
        /\ \A i, j \in DOMAIN progress :
             i < j => progress[i].num * progress[j].den
                         <= progress[j].num * progress[i].den
        /\ (video.K >= 1 /\ frame_count = video.K) =>
              /\ Len(progress) = video.K
              /\ progress[video.K].num = progress[video.K].den

\* C3 as claimed: once the drain loop is over (no inference having failed),
\* the sink holds the annotation of every readable frame, once, in read order.
C3_FrameOrderClaim ==
    (pc # "drain" /\ failure # "inference") =>
        /\ Len(written) = video.K
        /\ \A i \in DOMAIN written : written[i].frame = i

\* C4 as claimed: however the transcode fails, the failure raises nothing,
\* and detect returns the copy of the intermediate file with the cumulative
\* statistics.
C4_TranscodeFallbackClaim ==
    transcode \in {"exit_nonzero", "missing", "not_executable"} =>
        /\ failure # "transcode"
        /\ pc = "display" =>
              /\ files[result.output_path] = [fmt |-> "xvid", frames |-> written]
              /\ result.statistics = total_stats

\* C5 as claimed: with an advisory total of 0 and a readable frame, progress
\* reporting raises nothing and the loop processes every readable frame.
C5_ZeroTotalClaim ==
    (video.total_frames = 0 /\ video.K >= 1) =>
        /\ failure # "progress"
        /\ pc \in {"convert", "detect_cleanup", "display"} =>
              frame_count = video.K

\* C6 as claimed: after a failure of the inference call the application has
\* caught nothing: it shows no message of its own (the model-load error least
\* of all), no statistics and no output.
C6_InferenceFailureClaim ==
    failure = "inference" =>
        ui \cap {"error_loading_model", "statistics", "result_image",
                 "result_video"} = {}

\* C7 as claimed: when the handling of the request has ended, no temporary
\* file it created is left, save one whose deletion failed.
C7_TempFilesClaim == pc = "done" => DOMAIN files \subseteq unlink_failed

\* The paths of the calls that returned a model.
LoadedPaths == {calls[i].path : i \in {k \in DOMAIN calls : ~calls[k].raised}}

\* C8: calls of load_model that returned a model returned the same handle
\* exactly when they were given the same path, and the number of models
\* deserialized is the number of distinct paths loaded.
C8_ModelCache ==
    /\ \A i, j \in DOMAIN calls :
         (~calls[i].raised /\ ~calls[j].raised) =>
            (calls[i].path = calls[j].path <=> calls[i].model = calls[j].model)
    /\ loads = Cardinality(LoadedPaths)

\* C8's case: a path loaded twice and another path loaded between or after.
C8_Witness ==
    \E i, j, k \in DOMAIN calls :
        /\ i < j
        /\ ~calls[i].raised /\ ~calls[j].raised /\ ~calls[k].raised
        /\ calls[i].path = calls[j].path
        /\ calls[k].path # calls[i].path
        /\ loads = 2

\* The sum of the counts of a statistics table.
RECURSIVE SumCounts(_)
SumCounts(stats) ==
    IF DOMAIN stats = {} THEN 0
    ELSE LET k == CHOOSE x \in DOMAIN stats : TRUE
         IN  stats[k] + SumCounts([x \in DOMAIN stats \ {k} |-> stats[x]])

\* The boxes of a list whose class identifier resolves to `name`.
BoxesNamed(boxes, name) == {i \in DOMAIN boxes : GetClassName(boxes[i]) = name}

\* C9: the statistics of one inference call count, for each display name, the
\* boxes resolving to it; the counts sum to the number of boxes; and an
\* identifier outside the registry resolves to "Class N", a name of its own
\* that no registered class bears.
C9_StatisticsTable ==
    /\ probe.done =>
         LET boxes == probe.out.boxes
             stats == probe.out.statistics
         IN  /\ DOMAIN stats = {GetClassName(boxes[i]) : i \in DOMAIN boxes}
             /\ \A name \in DOMAIN stats \cup ConfiguredNames :
                  CountIn(stats, name) = Cardinality(BoxesNamed(boxes, name))
             /\ SumCounts(stats) = Len(boxes)
    /\ \A n \in ClassIds \ DOMAIN DETECTION_CLASSES :
         /\ GetClassName(n) = "Class " \o ToString(n)
         /\ GetClassName(n) \notin ConfiguredNames
         /\ \A m \in ClassIds : GetClassName(m) = GetClassName(n) => m = n

\* C9's case: a call whose boxes hold a registered class twice and an
\* unregistered one.
C9_Witness ==
    /\ probe.done
    /\ "Class 2" \in DOMAIN probe.out.statistics
    /\ \E name \in ConfiguredNames :
         /\ name \in DOMAIN probe.out.statistics
         /\ probe.out.statistics[name] = 2

\* C10: with an empty selection the inference call gets no class filter and
\* every class of the engine's boxes is in the statistics; with a non-empty
\* one it gets exactly the selection; either way every box the engine
\* returned is counted.
C10_ClassFilter ==
    probe.done =>
        /\ probe.classes = <<>> =>
              /\ probe.out.classes_arg = NoFilter
              /\ \A i \in DOMAIN probe.frame.raw :
                   GetClassName(probe.frame.raw[i]) \in DOMAIN probe.out.statistics
        /\ probe.classes # <<>> =>
              probe.out.classes_arg = [filter |-> TRUE, ids |-> probe.classes]
        /\ \A c \in ClassIds :
             CountIn(probe.out.statistics, GetClassName(c))
                = Cardinality({i \in DOMAIN probe.out.boxes : probe.out.boxes[i] = c})

\* C10's case: an empty selection on a frame showing both registered classes
\* and an unregistered one.
C10_Witness ==
    /\ probe.done
    /\ probe.classes = <<>>
    /\ ListItems(probe.frame.raw) = ClassIds
    /\ DOMAIN probe.out.statistics = {"Human", "Car", "Class 2"}

\* C11 as claimed: the drain loop is left only by a failing read (no inference
\* having failed), after the detector ran on exactly the K readable frames,
\* whatever the advisory total; the reader and the sink are then released,
\* before the transcode starts; and the intermediate file is there until the
\* transcode or the fallback copy has finished.
C11_DrainLoopClaim ==
    /\ (pc # "drain" /\ failure # "inference") =>
          /\ failure # "progress"
          /\ Len(frames_read) = video.K
          /\ ~cap_open /\ ~out_open
    /\ transcode # "none" => (~cap_open /\ ~out_open)
    /\ pc \in {"drain", "convert"} => TempAvi \in DOMAIN files

====
